---- MODULE Spec2Model ----
(***************************************************************************)
(* A model of rustix's linux_raw process syscall wrappers                  *)
(* (src/src/imp/linux_raw/process/syscalls.rs).                            *)
(*                                                                         *)
(* Every wrapper is one action.  An action draws the kernel's answers (the *)
(* raw outcome word of each syscall it dispatches, and what the kernel     *)
(* wrote into caller memory) from small sets, and records                  *)
(*   op, args  the wrapper invoked and its typed arguments,                *)
(*   calls     the syscalls it dispatched, in order, each with the         *)
(*             dispatcher variant, the encoded arguments, whether a        *)
(*             writable-memory argument was passed, the raw outcome and    *)
(*             what the kernel wrote,                                      *)
(*   reads     the indices (into calls) of the calls whose output slot the *)
(*             wrapper then read with assume_init,                         *)
(*   buf       the caller's buffer after the call (sched_getaffinity),     *)
(*   result    the typed outcome.                                          *)
(* The build (target_arch, debug_assertions) and the kernel's state (the   *)
(* process's nice value, its working directory) persist across calls.      *)
(***************************************************************************)
EXTENDS Integers, Sequences, FiniteSets, TLC

VARIABLES target_arch, debug_assertions, knice, cwd, exited,
          op, args, calls, reads, buf, result

vars == <<target_arch, debug_assertions, knice, cwd, exited,
          op, args, calls, reads, buf, result>>

build == <<target_arch, debug_assertions>>
kernel == <<knice, cwd, exited>>

(***************************************************************************)
(* Bounds of the model.                                                    *)
(***************************************************************************)
MaxPid == 2
MaxStatus == 1
MaxLimit == 1
MaxResource == 1
MaxQuery == 3
MaxCpu == 1
MaxCmd == 1
MaxUid == 1
Margin == 1
CpuSetBytes == 2
\* Scaled-down widths of the legacy rlimit field (32 bits on a 32-bit target)
\* and of the rlimit64 field (64 bits); CpuSetBytes likewise scales down
\* size_of::<RawCpuSet>().
LegacyBits == 3
WideBits == 5

(***************************************************************************)
(* Program constants.                                                      *)
(***************************************************************************)
NOSYS == 38
EPERM == 1
IncLimit == 40
PrioMax == 19
PrioMin == -20
PrioBase == 20

\* The all-ones value of the legacy (pointer-width) and of the 64-bit limit
\* field, at the model's scaled-down widths.
LegacyMax == 2^LegacyBits - 1
WideMax == 2^WideBits - 1

\* linux_raw_sys::v5_4::general::RLIM64_INFINITY as u64
RLIM64_INFINITY == WideMax
\* linux_raw_sys::general::RLIM_INFINITY as the legacy field's type (32-bit target)
RLIM_INFINITY_32 == LegacyMax
\* linux_raw_sys::general::RLIM_INFINITY as u64 (64-bit target)
RLIM_INFINITY_64 == WideMax

pointer_width == IF target_arch \in {"x86", "arm"} THEN 32 ELSE 64
\* cfg(any(target_arch = "x86", target_arch = "sparc", target_arch = "arm"))
uid32_family == target_arch \in {"x86", "sparc", "arm"}

(***************************************************************************)
(* Input sets.                                                             *)
(***************************************************************************)
Archs == {"x86", "x86_64"}
Errnos == {EPERM, NOSYS}
NegErrs == {-e : e \in Errnos}
RawPids == 0..MaxPid
Uids == 0..MaxUid
Bytes == {0, 255}
Dirs == {"/", "/tmp"}
Resources == 0..MaxResource
Limits64 == (0..MaxLimit) \cup {RLIM_INFINITY_32, RLIM64_INFINITY}
LimitsLegacy == (0..MaxLimit) \cup {RLIM_INFINITY_32}
Incs == UNION {(c - Margin)..(c + Margin) : c \in {-IncLimit, 0, IncLimit}}
Prios == {PrioMin - 1, PrioMin, PrioMax, PrioMax + 1}
BytesOfLen(n) == [1..n -> Bytes]

(***************************************************************************)
(* Typed outcomes.                                                         *)
(***************************************************************************)
Unit == <<>>
Ok(v) == [kind |-> "Ok", val |-> v]
Err(e) == [kind |-> "Err", val |-> e]
Ret(v) == [kind |-> "Ret", val |-> v]
Panic == [kind |-> "Panic", val |-> Unit]
None == [some |-> FALSE, val |-> 0]
Some(v) == [some |-> TRUE, val |-> v]

(***************************************************************************)
(* Result Decoder.                                                         *)
(***************************************************************************)
IsErrRaw(raw) == raw < 0
ret(raw) == IF IsErrRaw(raw) THEN Err(-raw) ELSE Ok(Unit)
ret_c_int(raw) == IF IsErrRaw(raw) THEN Err(-raw) ELSE Ok(raw)
ret_c_uint(raw) == IF IsErrRaw(raw) THEN Err(-raw) ELSE Ok(raw)
ret_usize(raw) == IF IsErrRaw(raw) THEN Err(-raw) ELSE Ok(raw)
ret_infallible(raw) == IF IsErrRaw(raw) THEN Panic ELSE Ok(Unit)
ret_usize_infallible(raw) == IF IsErrRaw(raw) THEN Panic ELSE Ok(raw)

(***************************************************************************)
(* Architecture Dispatcher: the record of one dispatched syscall.          *)
(***************************************************************************)
Call(nr, variant, a, writable, raw, out) ==
    [nr |-> nr, variant |-> variant, args |-> a, writable |-> writable,
     raw |-> raw, out |-> out]

Finish(name, a, cs, rd, b, res) ==
    /\ op' = name
    /\ args' = a
    /\ calls' = cs
    /\ reads' = rd
    /\ buf' = b
    /\ result' = res

Init ==
    /\ target_arch \in Archs
    /\ debug_assertions \in BOOLEAN
    /\ knice = 0
    /\ cwd = "/"
    /\ exited = FALSE
    /\ op = "none"
    /\ args = <<>>
    /\ calls = <<>>
    /\ reads = <<>>
    /\ buf = <<>>
    /\ result = Ret(Unit)

(***************************************************************************)
(* membarrier_query                                                        *)
(***************************************************************************)
\* faulty variant: the decoder's error is surfaced instead of absorbed
membarrier_query_result_surfacing(raw) ==
    LET r == ret_c_uint(raw) IN
    IF r.kind = "Ok" THEN Ret([bits |-> r.val]) ELSE r

membarrier_query_result(raw) ==
    LET r == ret_c_uint(raw) IN
    IF r.kind = "Ok" THEN Ret([bits |-> r.val]) ELSE Ret([bits |-> 0])

MembarrierQuery ==
    /\ ~exited
    /\ \E raw \in (0..MaxQuery) \cup NegErrs :
          Finish("membarrier_query", <<>>,
                 <<Call("membarrier", "ordinary", <<0, 0>>, FALSE, raw, <<>>)>>,
                 <<>>, <<>>, membarrier_query_result(raw))
    /\ UNCHANGED <<build, kernel>>

(***************************************************************************)
(* getpid                                                                  *)
(***************************************************************************)
Getpid ==
    /\ ~exited
    /\ \E raw \in RawPids \cup NegErrs :
          LET c == Call("getpid", "readonly", <<>>, FALSE, raw, <<>>)
              r == ret_usize_infallible(raw)
          IN  IF r.kind = "Panic"
              THEN Finish("getpid", <<>>, <<c>>, <<>>, <<>>, Panic)
              ELSE LET pid == r.val IN
                   IF pid # 0
                   THEN Finish("getpid", <<>>, <<c>>, <<>>, <<>>, Ret(pid))
                   ELSE IF debug_assertions
                   THEN \* debug_assert_ne!(pid, 0) fires
                        Finish("getpid", <<>>, <<c>>, <<>>, <<>>, Panic)
                   ELSE \* RawNonZeroPid::new_unchecked(0): undefined behaviour
                        \E res \in {Ret(p) : p \in RawPids} \cup {Panic} :
                            Finish("getpid", <<>>, <<c>>, <<>>, <<>>, res)
    /\ UNCHANGED <<build, kernel>>

(***************************************************************************)
(* uname                                                                   *)
(***************************************************************************)
\* faulty variant: the decoded outcome is dropped and the slot read regardless
Uname_unchecked ==
    /\ ~exited
    /\ \E raw \in {0} \cup NegErrs :
          LET out == IF raw = 0 THEN <<"Linux">> ELSE <<>>
              c == Call("uname", "ordinary", <<"out">>, TRUE, raw, out)
          IN  Finish("uname", <<>>, <<c>>, <<1>>, <<>>, Ret(out))
    /\ UNCHANGED <<build, kernel>>

Uname ==
    /\ ~exited
    /\ \E raw \in {0} \cup NegErrs :
          LET out == IF raw = 0 THEN <<"Linux">> ELSE <<>>
              c == Call("uname", "ordinary", <<"out">>, TRUE, raw, out)
              r == ret(raw)
          IN  IF r.kind = "Err"
              THEN \* .unwrap() panics
                   Finish("uname", <<>>, <<c>>, <<>>, <<>>, Panic)
              ELSE Finish("uname", <<>>, <<c>>, <<1>>, <<>>, Ret(out))
    /\ UNCHANGED <<build, kernel>>

(***************************************************************************)
(* getrlimit                                                               *)
(***************************************************************************)
\* u64::try_from(x).ok() of a legacy (pointer-width) field
try_into_u64(x) == IF 0 <= x /\ x <= WideMax THEN Some(x) ELSE None

\* the Ok arm of the 32-bit build: rlimit64 -> Rlimit
rlimit_from_rlimit64(rlim_cur, rlim_max) ==
    [current |-> IF rlim_cur = RLIM64_INFINITY THEN None ELSE Some(rlim_cur),
     maximum |-> IF rlim_max = RLIM64_INFINITY THEN None ELSE Some(rlim_max)]

\* faulty variant: the legacy fields compared with the 64-bit infinity
rlimit_from_legacy_wide_sentinel(rlim_cur, rlim_max) ==
    [current |-> IF rlim_cur = RLIM64_INFINITY THEN None
                 ELSE try_into_u64(rlim_cur),
     maximum |-> IF rlim_max = RLIM64_INFINITY THEN None
                 ELSE try_into_u64(rlim_cur)]

\* the Err arm of the 32-bit build: legacy rlimit -> Rlimit
rlimit_from_legacy(rlim_cur, rlim_max) ==
    [current |-> IF rlim_cur = RLIM_INFINITY_32 THEN None
                 ELSE try_into_u64(rlim_cur),
     maximum |-> IF rlim_max = RLIM_INFINITY_32 THEN None
                 ELSE try_into_u64(rlim_cur)]

\* the 64-bit build: rlimit64 -> Rlimit
rlimit_from_rlimit64_wide(rlim_cur, rlim_max) ==
    [current |-> IF rlim_cur = RLIM_INFINITY_64 THEN None ELSE Some(rlim_cur),
     maximum |-> IF rlim_max = RLIM_INFINITY_64 THEN None ELSE Some(rlim_max)]

Prlimit64Call(limit, raw, out) ==
    Call("prlimit64", "ordinary", <<0, limit, 0, "out">>, TRUE, raw, out)

LegacyGetrlimitCall(limit, raw, out) ==
    Call("getrlimit", "ordinary", <<limit, "out">>, TRUE, raw, out)

\* the Err(e) arm of getrlimit on a 32-bit target
GetrlimitFallback(limit, c1, e) ==
    IF debug_assertions /\ e # NOSYS
    THEN \* debug_assert_eq!(e, io::Error::NOSYS) fires
         Finish("getrlimit", <<limit>>, <<c1>>, <<>>, <<>>, Panic)
    ELSE \E raw2 \in {0} \cup NegErrs :
           IF ret_infallible(raw2).kind = "Panic"
           THEN Finish("getrlimit", <<limit>>,
                       <<c1, LegacyGetrlimitCall(limit, raw2, <<>>)>>,
                       <<>>, <<>>, Panic)
           ELSE \E rlim_cur \in LimitsLegacy, rlim_max \in LimitsLegacy :
                  Finish("getrlimit", <<limit>>,
                         <<c1, LegacyGetrlimitCall(limit, raw2, <<rlim_cur, rlim_max>>)>>,
                         <<2>>, <<>>,
                         Ret(rlimit_from_legacy(rlim_cur, rlim_max)))

Getrlimit32 ==
    /\ ~exited
    /\ pointer_width = 32
    /\ \E limit \in Resources, raw \in {0} \cup NegErrs :
          LET r == ret(raw) IN
          IF r.kind = "Ok"
          THEN \E rlim_cur \in Limits64, rlim_max \in Limits64 :
                 Finish("getrlimit", <<limit>>,
                        <<Prlimit64Call(limit, raw, <<rlim_cur, rlim_max>>)>>,
                        <<1>>, <<>>,
                        Ret(rlimit_from_rlimit64(rlim_cur, rlim_max)))
          ELSE GetrlimitFallback(limit, Prlimit64Call(limit, raw, <<>>), r.val)
    /\ UNCHANGED <<build, kernel>>

Getrlimit64 ==
    /\ ~exited
    /\ pointer_width = 64
    /\ \E limit \in Resources, raw \in {0} \cup NegErrs :
          IF ret_infallible(raw).kind = "Panic"
          THEN Finish("getrlimit", <<limit>>,
                      <<Prlimit64Call(limit, raw, <<>>)>>, <<>>, <<>>, Panic)
          ELSE \E rlim_cur \in Limits64, rlim_max \in Limits64 :
                 Finish("getrlimit", <<limit>>,
                        <<Prlimit64Call(limit, raw, <<rlim_cur, rlim_max>>)>>,
                        <<1>>, <<>>,
                        Ret(rlimit_from_rlimit64_wide(rlim_cur, rlim_max)))
    /\ UNCHANGED <<build, kernel>>

(***************************************************************************)
(* wait, waitpid, _waitpid                                                 *)
(***************************************************************************)
\* faulty variant: a zero payload reported as a child
_waitpid_zero_as_some(raw, status) ==
    LET r == ret_c_uint(raw) IN
    IF r.kind = "Err" THEN r ELSE Ok(Some(<<r.val, status>>))

\* the decoding in _waitpid of wait4's raw outcome; status is the word the
\* kernel's status pointer refers to after the call
_waitpid(raw, status) ==
    LET r == ret_c_uint(raw) IN
    IF r.kind = "Err" THEN r
    ELSE Ok(IF r.val # 0 THEN Some(<<r.val, status>>) ELSE None)

\* pid_arg is the first argument as encoded by c_int(pid as _)
Wait4(name, a, pid_arg, waitopts) ==
    \E raw \in RawPids \cup NegErrs, kstatus \in 0..MaxStatus :
       LET wrote == raw > 0
           status == IF wrote THEN kstatus ELSE 0
       IN  Finish(name, a,
                  <<Call("wait4", "ordinary", <<pid_arg, "by_mut", waitopts, 0>>,
                         TRUE, raw, IF wrote THEN <<kstatus>> ELSE <<>>)>>,
                  <<>>, <<>>, _waitpid(raw, status))

Wait ==
    /\ ~exited
    /\ \E waitopts \in 0..1 :
          \* !0 as a RawPid, encoded by c_int(pid as _), is -1
          Wait4("wait", <<waitopts>>, -1, waitopts)
    /\ UNCHANGED <<build, kernel>>

Waitpid ==
    /\ ~exited
    /\ \E pid \in RawPids, waitopts \in 0..1 :
          \* pid is Pid::as_raw(pid): 0 for None
          Wait4("waitpid", <<pid, waitopts>>, pid, waitopts)
    /\ UNCHANGED <<build, kernel>>

(***************************************************************************)
(* sched_getaffinity                                                       *)
(***************************************************************************)
\* ptr.write_bytes(val, count) at byte offset `start` of mem
write_bytes(mem, start, val, count) ==
    [i \in DOMAIN mem |->
        IF i - 1 >= start /\ i - 1 < start + count THEN val ELSE mem[i]]

\* the kernel copies its mask into the first Len(kbytes) bytes
KernelCopyOut(mem, kbytes) ==
    [i \in DOMAIN mem |-> IF i <= Len(kbytes) THEN kbytes[i] ELSE mem[i]]

\* faulty variant: the zeroing starts one byte late
zero_rest_late(mem, size) == write_bytes(mem, size + 1, 0, CpuSetBytes - size)

\* the cpuset after the wrapper's zeroing of the bytes the kernel did not set
zero_rest(mem, size) == write_bytes(mem, size, 0, CpuSetBytes - size)

SchedGetaffinity ==
    /\ ~exited
    /\ \E pid \in RawPids, cpuset \in BytesOfLen(CpuSetBytes),
          raw \in (0..CpuSetBytes) \cup NegErrs :
          LET r == ret_usize(raw)
              a == <<pid, cpuset>>
              cargs == <<pid, CpuSetBytes, "by_mut">>
          IN  IF r.kind = "Err"
              THEN Finish("sched_getaffinity", a,
                          <<Call("sched_getaffinity", "ordinary", cargs, TRUE,
                                 raw, <<>>)>>,
                          <<>>, cpuset, r)
              ELSE \E kbytes \in BytesOfLen(r.val) :
                     Finish("sched_getaffinity", a,
                            <<Call("sched_getaffinity", "ordinary", cargs, TRUE,
                                   raw, kbytes)>>,
                            <<>>, zero_rest(KernelCopyOut(cpuset, kbytes), r.val),
                            Ok(Unit))
    /\ UNCHANGED <<build, kernel>>

(***************************************************************************)
(* getpriority_*, setpriority_*, nice                                      *)
(***************************************************************************)
\* Ok(20 - ret_c_int(raw)?)
getpriority_result(raw) ==
    LET r == ret_c_int(raw) IN
    IF r.kind = "Err" THEN r ELSE Ok(PrioBase - r.val)

\* the getpriority syscall answers 20 - nice, or fails
KernelGetpriority == {PrioBase - knice} \cup NegErrs

\* the setpriority syscall stores the value clamped to the nice range
KernelClamp(priority) ==
    IF priority < PrioMin THEN PrioMin
    ELSE IF priority > PrioMax THEN PrioMax ELSE priority

GetpriorityCall(which, who, raw) ==
    Call("getpriority", "readonly", <<which, who>>, FALSE, raw, <<>>)

SetpriorityCall(which, who, priority, raw) ==
    Call("setpriority", "readonly", <<which, who, priority>>, FALSE, raw, <<>>)

Getpriority(name, which, who) ==
    /\ \E raw \in KernelGetpriority :
          Finish(name, <<who>>, <<GetpriorityCall(which, who, raw)>>,
                 <<>>, <<>>, getpriority_result(raw))
    /\ UNCHANGED <<build, kernel>>

Setpriority(name, which, who, priority) ==
    /\ \E raw \in {0} \cup NegErrs :
          /\ Finish(name, <<who, priority>>,
                    <<SetpriorityCall(which, who, priority, raw)>>,
                    <<>>, <<>>, ret(raw))
          /\ knice' = IF raw = 0 THEN KernelClamp(priority) ELSE knice
    /\ UNCHANGED <<build, cwd, exited>>

GetpriorityUser ==
    ~exited /\ \E uid \in Uids : Getpriority("getpriority_user", "PRIO_USER", uid)

GetpriorityPgrp ==
    ~exited /\ \E pgid \in RawPids : Getpriority("getpriority_pgrp", "PRIO_PGRP", pgid)

GetpriorityProcess ==
    ~exited /\ \E pid \in RawPids :
                  Getpriority("getpriority_process", "PRIO_PROCESS", pid)

SetpriorityUser ==
    ~exited /\ \E uid \in Uids, priority \in Prios :
                  Setpriority("setpriority_user", "PRIO_USER", uid, priority)

SetpriorityPgrp ==
    ~exited /\ \E pgid \in RawPids, priority \in Prios :
                  Setpriority("setpriority_pgrp", "PRIO_PGRP", pgid, priority)

SetpriorityProcess ==
    ~exited /\ \E pid \in RawPids, priority \in Prios :
                  Setpriority("setpriority_process", "PRIO_PROCESS", pid, priority)

\* x.min(19).max(-20)
min_max(x) ==
    LET lo == IF x < PrioMax THEN x ELSE PrioMax
    IN  IF lo > PrioMin THEN lo ELSE PrioMin

\* inc > -40 && inc < 40
nice_in_range(inc) == inc > -IncLimit /\ inc < IncLimit

\* faulty variant: the clamp binds to the in-range arm only
nice_priority_passthrough(inc, cur) ==
    IF nice_in_range(inc) THEN min_max(inc + cur) ELSE inc

\* the priority nice applies; cur is getpriority_process(None)'s value, used
\* only when inc is in range
nice_priority(inc, cur) ==
    min_max(IF nice_in_range(inc) THEN inc + cur ELSE inc)

\* setpriority_process(None, priority)?; Ok(priority)
NiceApply(inc, cs, priority) ==
    \E raw \in {0} \cup NegErrs :
       LET r == ret(raw) IN
       /\ Finish("nice", <<inc>>,
                 Append(cs, SetpriorityCall("PRIO_PROCESS", 0, priority, raw)),
                 <<>>, <<>>, IF r.kind = "Err" THEN r ELSE Ok(priority))
       /\ knice' = IF raw = 0 THEN KernelClamp(priority) ELSE knice

Nice ==
    /\ ~exited
    /\ \E inc \in Incs :
          IF nice_in_range(inc)
          THEN \E raw \in KernelGetpriority :
                 LET c1 == GetpriorityCall("PRIO_PROCESS", 0, raw)
                     g == getpriority_result(raw)
                 IN  IF g.kind = "Err"
                     THEN /\ Finish("nice", <<inc>>, <<c1>>, <<>>, <<>>, g)
                          /\ UNCHANGED knice
                     ELSE NiceApply(inc, <<c1>>, nice_priority(inc, g.val))
          ELSE NiceApply(inc, <<>>, nice_priority(inc, 0))
    /\ UNCHANGED <<build, cwd, exited>>

(***************************************************************************)
(* chdir, fchdir, getcwd                                                   *)
(***************************************************************************)
\* faulty variant: chdir dispatched through the ordinary variant
Chdir_ordinary ==
    /\ ~exited
    /\ \E filename \in Dirs, raw \in {0} \cup NegErrs :
          /\ Finish("chdir", <<filename>>,
                    <<Call("chdir", "ordinary", <<filename>>, FALSE, raw, <<>>)>>,
                    <<>>, <<>>, ret(raw))
          /\ cwd' = IF raw = 0 THEN filename ELSE cwd
    /\ UNCHANGED <<build, knice, exited>>

Chdir ==
    /\ ~exited
    /\ \E filename \in Dirs, raw \in {0} \cup NegErrs :
          /\ Finish("chdir", <<filename>>,
                    <<Call("chdir", "readonly", <<filename>>, FALSE, raw, <<>>)>>,
                    <<>>, <<>>, ret(raw))
          /\ cwd' = IF raw = 0 THEN filename ELSE cwd
    /\ UNCHANGED <<build, knice, exited>>

\* the descriptor is identified with the directory it is open on
Fchdir ==
    /\ ~exited
    /\ \E fd \in Dirs, raw \in {0} \cup NegErrs :
          /\ Finish("fchdir", <<fd>>,
                    <<Call("fchdir", "readonly", <<fd>>, FALSE, raw, <<>>)>>,
                    <<>>, <<>>, ret(raw))
          /\ cwd' = IF raw = 0 THEN fd ELSE cwd
    /\ UNCHANGED <<build, knice, exited>>

\* the bytes of a path with its terminating NUL
PathLen(d) == IF d = "/" THEN 2 ELSE 5

Getcwd ==
    /\ ~exited
    /\ \E raw \in {PathLen(cwd)} \cup NegErrs :
          LET out == IF raw >= 0 THEN <<cwd>> ELSE <<>> IN
          Finish("getcwd", <<>>,
                 <<Call("getcwd", "ordinary", <<"slice_mut", "len">>, TRUE, raw, out)>>,
                 <<>>, out, ret_usize(raw))
    /\ UNCHANGED <<build, kernel>>

(***************************************************************************)
(* membarrier, membarrier_cpu                                              *)
(***************************************************************************)
Membarrier ==
    /\ ~exited
    /\ \E cmd \in 0..MaxCmd, raw \in {0} \cup NegErrs :
          Finish("membarrier", <<cmd>>,
                 <<Call("membarrier", "ordinary", <<cmd, 0>>, FALSE, raw, <<>>)>>,
                 <<>>, <<>>, ret(raw))
    /\ UNCHANGED <<build, kernel>>

MembarrierCpu ==
    /\ ~exited
    /\ \E cmd \in 0..MaxCmd, cpu \in 0..MaxCpu, raw \in {0} \cup NegErrs :
          Finish("membarrier_cpu", <<cmd, cpu>>,
                 <<Call("membarrier", "ordinary",
                        <<cmd, "MEMBARRIER_CMD_FLAG_CPU", cpu>>, FALSE, raw, <<>>)>>,
                 <<>>, <<>>, ret(raw))
    /\ UNCHANGED <<build, kernel>>

(***************************************************************************)
(* getppid, getgid, getegid, getuid, geteuid                               *)
(***************************************************************************)
Getppid ==
    /\ ~exited
    /\ \E raw \in RawPids \cup NegErrs :
          LET r == ret_usize_infallible(raw) IN
          Finish("getppid", <<>>,
                 <<Call("getppid", "readonly", <<>>, FALSE, raw, <<>>)>>,
                 <<>>, <<>>,
                 IF r.kind = "Panic" THEN Panic
                 ELSE Ret(IF r.val = 0 THEN None ELSE Some(r.val)))
    /\ UNCHANGED <<build, kernel>>

\* one identity query: nr32 on the x86/sparc/arm family, nr elsewhere
IdQuery(name, nr, nr32) ==
    /\ ~exited
    /\ \E raw \in Uids \cup NegErrs :
          LET r == ret_usize_infallible(raw) IN
          Finish(name, <<>>,
                 <<Call(IF uid32_family THEN nr32 ELSE nr, "readonly", <<>>,
                        FALSE, raw, <<>>)>>,
                 <<>>, <<>>, IF r.kind = "Panic" THEN Panic ELSE Ret(r.val))
    /\ UNCHANGED <<build, kernel>>

Getgid == IdQuery("getgid", "getgid", "getgid32")

Getegid == IdQuery("getegid", "getegid", "getegid32")

Getuid == IdQuery("getuid", "getuid", "getuid32")

Geteuid == IdQuery("geteuid", "geteuid", "geteuid32")

(***************************************************************************)
(* sched_setaffinity, sched_yield, exit_group                              *)
(***************************************************************************)
SchedSetaffinity ==
    /\ ~exited
    /\ \E pid \in RawPids, cpuset \in BytesOfLen(CpuSetBytes),
          raw \in {0} \cup NegErrs :
          Finish("sched_setaffinity", <<pid, cpuset>>,
                 <<Call("sched_setaffinity", "ordinary",
                        <<pid, CpuSetBytes, "slice_just_addr">>, FALSE, raw, <<>>)>>,
                 <<>>, <<>>, ret(raw))
    /\ UNCHANGED <<build, kernel>>

SchedYield ==
    /\ ~exited
    /\ \E raw \in {0} \cup NegErrs :
          \* let _ = ...: the outcome is dropped
          Finish("sched_yield", <<>>,
                 <<Call("sched_yield", "readonly", <<>>, FALSE, raw, <<>>)>>,
                 <<>>, <<>>, Ret(Unit))
    /\ UNCHANGED <<build, kernel>>

ExitGroup ==
    /\ ~exited
    /\ \E code \in 0..1 :
          /\ Finish("exit_group", <<code>>,
                    <<Call("exit_group", "noreturn", <<code>>, FALSE, 0, <<>>)>>,
                    <<>>, <<>>, Ret(Unit))
          /\ exited' = TRUE
    /\ UNCHANGED <<build, knice, cwd>>

NextPriority ==
    \/ Nice
    \/ GetpriorityProcess
    \/ SetpriorityProcess

NextDispatch ==
    \/ Chdir
    \/ Fchdir
    \/ Getcwd
    \/ Membarrier
    \/ MembarrierCpu
    \/ Getpid
    \/ Getppid
    \/ Getgid
    \/ Getegid
    \/ Getuid
    \/ Geteuid
    \/ SchedSetaffinity
    \/ SchedYield
    \/ GetpriorityUser
    \/ GetpriorityPgrp
    \/ GetpriorityProcess
    \/ SetpriorityUser
    \/ SetpriorityPgrp
    \/ SetpriorityProcess
    \/ ExitGroup

SpecPriority == Init /\ [][NextPriority]_vars

SpecDispatch == Init /\ [][NextDispatch]_vars

NextQuery ==
    \/ MembarrierQuery
    \/ Getpid
    \/ Uname
    \/ Getrlimit32
    \/ Getrlimit64
    \/ Wait
    \/ Waitpid
    \/ SchedGetaffinity

Spec == Init /\ [][NextQuery]_vars

(***************************************************************************)
(* Properties of the query wrappers, checked under Spec.                   *)
(***************************************************************************)

\* C2: membarrier_query never surfaces an error: a failure outcome of the
\* query syscall gives the empty capability set, a success outcome gives
\* exactly the bit-set whose bits are the payload.
C2_MembarrierQueryAbsorbsErrors ==
    op = "membarrier_query" =>
        /\ result.kind = "Ret"
        /\ result.val.bits = IF calls[1].raw < 0 THEN 0 ELSE calls[1].raw

C2_Witness ==
    /\ op = "membarrier_query"
    /\ calls[1].raw = -NOSYS
    /\ result = Ret([bits |-> 0])

\* C3: on a 32-bit target the primary prlimit64 call comes first; when it
\* reports NOSYS the legacy getrlimit call is issued exactly once, after it;
\* when it succeeds no legacy call is issued; and each legacy field equal to
\* the legacy infinity is reported as None.
C3_FallbackOnceAfterNosys ==
    (op = "getrlimit" /\ pointer_width = 32) =>
        /\ calls[1].nr = "prlimit64"
        /\ Cardinality({i \in DOMAIN calls : calls[i].nr = "prlimit64"}) = 1
        /\ calls[1].raw >= 0 => Len(calls) = 1
        /\ calls[1].raw = -NOSYS =>
              /\ Len(calls) = 2
              /\ calls[2].nr = "getrlimit"
              /\ calls[2].raw >= 0 =>
                    /\ result.kind = "Ret"
                    /\ calls[2].out[1] = RLIM_INFINITY_32 => result.val.current = None
                    /\ calls[2].out[2] = RLIM_INFINITY_32 => result.val.maximum = None

C3_Witness ==
    /\ op = "getrlimit"
    /\ pointer_width = 32
    /\ Len(calls) = 2
    /\ calls[1].raw = -NOSYS
    /\ calls[2].raw = 0
    /\ calls[2].out = <<0, RLIM_INFINITY_32>>
    /\ result.val.maximum = None

\* C4 (as claimed): the legacy getrlimit call is issued only if the primary
\* prlimit64 call failed with NOSYS.
C4_LegacyOnlyAfterNosys ==
    op = "getrlimit" =>
        \A i \in DOMAIN calls :
            calls[i].nr = "getrlimit" => calls[1].raw = -NOSYS

\* C5: _waitpid decodes wait4's raw outcome into three distinct cases: a
\* negative outcome is Err with that error, a zero payload is Ok(None), a
\* non-zero payload p is Ok(Some((p, the status the kernel wrote))).
C5_WaitThreeCases ==
    op \in {"wait", "waitpid"} =>
        LET raw == calls[1].raw IN
        /\ raw < 0 => result.kind = "Err" /\ result.val = -raw
        /\ raw = 0 => result.kind = "Ok" /\ ~result.val.some
        /\ raw > 0 => /\ result.kind = "Ok"
                      /\ result.val.some
                      /\ result.val.val = <<raw, calls[1].out[1]>>

C5_Witness ==
    /\ op = "wait"
    /\ calls[1].raw = 0
    /\ result.kind = "Ok"
    /\ ~result.val.some

\* C6: an output slot is read as initialized only after the raw outcome of
\* the call that filled it indicated success (uname; getrlimit's primary,
\* fallback and 64-bit paths).
C6_SlotReadOnlyAfterSuccess ==
    \A i \in DOMAIN reads :
        /\ reads[i] \in DOMAIN calls
        /\ calls[reads[i]].writable
        /\ calls[reads[i]].raw >= 0

C6_Witness ==
    /\ op = "getrlimit"
    /\ Len(calls) = 2
    /\ calls[2].raw = 0
    /\ reads = <<2>>

\* C7 (as claimed): a zero payload from the getpid syscall always halts
\* getpid, and every Pid that getpid returns is non-zero.
C7_GetpidNeverZero ==
    op = "getpid" =>
        /\ calls[1].raw = 0 => result = Panic
        /\ result.kind = "Ret" => result.val # 0

\* C8 (as claimed): in the legacy fallback branch each field of the result is
\* reinterpreted from its own legacy field: None for the legacy infinity,
\* otherwise Some of that field.
C8_LegacyFieldsIndependent ==
    (op = "getrlimit" /\ Len(calls) = 2 /\ result.kind = "Ret") =>
        LET o == calls[2].out IN
        /\ result.val.current =
              IF o[1] = RLIM_INFINITY_32 THEN None ELSE Some(o[1])
        /\ result.val.maximum =
              IF o[2] = RLIM_INFINITY_32 THEN None ELSE Some(o[2])

\* C9: sched_getaffinity, on success with returned size s, leaves the first
\* s bytes of the cpuset as the kernel wrote them and every later byte zero;
\* on failure it returns the error and the cpuset is as it was.
C9_AffinityZeroesRest ==
    op = "sched_getaffinity" =>
        LET raw == calls[1].raw
            kbytes == calls[1].out
        IN  IF raw >= 0
            THEN /\ result.kind = "Ok"
                 /\ \A i \in 1..CpuSetBytes :
                       buf[i] = IF i <= raw THEN kbytes[i] ELSE 0
            ELSE /\ result.kind = "Err"
                 /\ result.val = -raw
                 /\ buf = args[2]

C9_Witness ==
    /\ op = "sched_getaffinity"
    /\ calls[1].raw = 1
    /\ args[2][1] = 0
    /\ args[2][CpuSetBytes] = 255
    /\ buf[1] = 255
    /\ buf[CpuSetBytes] = 0

(***************************************************************************)
(* Properties of nice, checked under SpecPriority.                         *)
(***************************************************************************)
ClampToNiceRange(x) == IF x < -20 THEN -20 ELSE IF x > 19 THEN 19 ELSE x

\* call c hands priority p to setpriority_process, and on success nice
\* returns that same p
NiceApplied(c, p) ==
    /\ c.nr = "setpriority"
    /\ c.args = <<"PRIO_PROCESS", 0, p>>
    /\ c.raw >= 0 => result = Ok(p)
    /\ c.raw < 0 => result = Err(-c.raw)

\* C1 (amended): for an increment strictly between -40 and 40, nice reads the
\* current priority and applies clamp(inc + current, -20, 19); for any other
\* increment it reads nothing and applies clamp(inc, -20, 19); the value handed
\* to setpriority_process and the value returned on success are that same
\* priority.
C1_NiceClampsEveryIncrement ==
    op = "nice" =>
        LET inc == args[1] IN
        IF inc > -40 /\ inc < 40
        THEN /\ calls[1].nr = "getpriority"
             /\ IF calls[1].raw < 0
                THEN Len(calls) = 1 /\ result = Err(-calls[1].raw)
                ELSE /\ Len(calls) = 2
                     /\ NiceApplied(calls[2],
                                    ClampToNiceRange(inc + (20 - calls[1].raw)))
        ELSE /\ Len(calls) = 1
             /\ NiceApplied(calls[1], ClampToNiceRange(inc))

C1_Witness ==
    /\ op = "nice"
    /\ args[1] = 40
    /\ Len(calls) = 1
    /\ calls[1].raw = 0
    /\ result = Ok(19)
    /\ knice = 19

\* C1 (as claimed): an increment outside [-40, 40) is handed to
\* setpriority_process unmodified; an increment inside it is applied as
\* clamp(inc + current priority, -20, 19).
C1_OutsideRangePassedThrough ==
    op = "nice" =>
        LET inc == args[1]
            last == calls[Len(calls)]
        IN  IF inc < -40 \/ inc >= 40
            THEN last.nr = "setpriority" /\ last.args[3] = inc
            ELSE last.nr = "setpriority" =>
                    \E cur \in -20..19 :
                        /\ Len(calls) = 2 => cur = 20 - calls[1].raw
                        /\ last.args[3] = ClampToNiceRange(inc + cur)

(***************************************************************************)
(* Properties of the dispatcher variants, checked under SpecDispatch.      *)
(***************************************************************************)
MutatingOps ==
    {"chdir", "fchdir", "setpriority_user", "setpriority_pgrp",
     "setpriority_process", "sched_yield"}

\* C10 (amended): a syscall dispatched through a read-only variant is handed
\* no writable caller memory and the kernel writes none for it; chdir, fchdir,
\* setpriority_user/pgrp/process and sched_yield, which act on kernel or
\* process state only, are each dispatched through a read-only variant.
C10_ReadonlyWritesNoCallerMemory ==
    /\ \A i \in DOMAIN calls :
          calls[i].variant = "readonly" =>
              ~calls[i].writable /\ calls[i].out = <<>> /\ buf = <<>>
    /\ op \in MutatingOps =>
          Len(calls) = 1 /\ calls[1].variant = "readonly"

C10_Witness ==
    /\ op = "chdir"
    /\ calls[1].variant = "readonly"
    /\ calls[1].raw = 0
    /\ args = <<"/tmp">>
    /\ cwd = "/tmp"

\* C10 (as claimed): no operation that mutates kernel or process state is
\* dispatched through a read-only variant.
C10_MutatingNeverReadonly ==
    op \in MutatingOps =>
        \A i \in DOMAIN calls : calls[i].variant # "readonly"
====
